---- MODULE Spec2Model ----
(***************************************************************************)
(* Model of the image-gen MCP server's hand-written PNG encoder            *)
(* (generatePNG, deflateData, crc32, adler32) and of the                   *)
(* generate_test_image request handler that calls it.                      *)
(*                                                                         *)
(* Numbers.  TLC's integers are 32-bit signed, so a JavaScript number that *)
(* holds a 32-bit quantity (any integer in -2^31 .. 2^32-1) is modelled as *)
(* a record [hi, lo] standing for hi * 65536 + lo, with lo in 0..65535 and *)
(* hi in -32768..65535.  The number is negative exactly when hi < 0, it is *)
(* an unsigned 32-bit value exactly when hi is in 0..65535.  Lengths,      *)
(* offsets and bytes are ordinary integers.                                *)
(*                                                                         *)
(* Buffers are sequences of bytes (0..255), indexed from 1.                *)
(***************************************************************************)
EXTENDS Integers, Sequences, FiniteSets, TLC

VARIABLES
    \* --- the request handler (handleGenerateImage) ---
    pc,          \* position of the current generate_test_image call
    args,        \* request.params.arguments of the current call
    pngBuffer,   \* the handler's local pngBuffer (<<>> until generatePNG returned)
    files,       \* the file system: filepath -> content written, or NoFile
    dirs,        \* directories created by mkdirSync
    response,    \* what the last finished call returned or threw
    effects,     \* per-call trace of side effects, in order
    \* --- one call of generatePNG on its own ---
    encArgs,     \* [width, height, color] handed to generatePNG
    locals,      \* generatePNG's locals when it returned or threw
    \* --- the checksum and stream functions on their own ---
    data,        \* input buffer
    crc,         \* crc32(data), once computed
    adler,       \* adler32(data), once computed
    stream,      \* deflateData(data), once computed
    \* --- deflateData's block loop on its own ---
    dataLength,  \* data.length of the buffer given to deflateData
    blocks,      \* the stored blocks the loop pushed
    \* --- generatePNG's IHDR payload on its own ---
    hdrArgs,     \* [width, height] handed to generatePNG
    hdrOut,      \* ihdrData, once built
    \* --- generatePNG called again and again on one server object ---
    calls,       \* the calls made so far in this process: arguments and outcome
    \* --- hexToRgb on its own ---
    hexArg,      \* the string handed to hexToRgb
    rgbOut       \* the triplet it returned, once computed

vars == <<pc, args, pngBuffer, files, dirs, response, effects,
          encArgs, locals, data, crc, adler, stream, dataLength, blocks,
          hdrArgs, hdrOut, calls, hexArg, rgbOut>>

handlerVars == <<pc, args, pngBuffer, files, dirs, response, effects>>
encodeVars  == <<encArgs, locals>>
sumVars     == <<data, crc, adler, stream>>
blockVars   == <<dataLength, blocks>>
headerVars  == <<hdrArgs, hdrOut>>
callVars    == <<calls>>
colorVars   == <<hexArg, rgbOut>>

----------------------------------------------------------------------------
(* Bounds of the model *)

\* images of 1..MaxDim pixels per side are encoded byte for byte
MaxDim == 3
\* arbitrary byte sequences up to this length are given to the checksums
MaxLen == 3
\* constant runs up to this length are given to the checksums
MaxRun == 24
\* deflateData's block loop is run on the lengths k * maxBlockSize + d for k in
\* 1..MaxBlocks and d in -MaxSmallLength..MaxSmallLength
MaxSmallLength == 90
MaxBlocks == 3
\* deflateData as a whole is run on buffers of about k * maxBlockSize bytes for
\* k in 1..MaxStreamBlocks
MaxStreamBlocks == 2
\* generatePNG is called up to MaxCalls times in a row
MaxCalls == 3

----------------------------------------------------------------------------
(* 16-bit and 32-bit arithmetic *)

RECURSIVE BitXor(_, _)
BitXor(x, y) ==
    IF x = 0 THEN y
    ELSE IF y = 0 THEN x
    ELSE ((x + y) % 2) + 2 * BitXor(x \div 2, y \div 2)

RECURSIVE BitAnd(_, _)
BitAnd(x, y) ==
    IF x = 0 \/ y = 0 THEN 0
    ELSE ((x % 2) * (y % 2)) + 2 * BitAnd(x \div 2, y \div 2)

RECURSIVE BitOr(_, _)
BitOr(x, y) ==
    IF x = 0 THEN y
    ELSE IF y = 0 THEN x
    ELSE (IF (x % 2) + (y % 2) > 0 THEN 1 ELSE 0) + 2 * BitOr(x \div 2, y \div 2)

RECURSIVE Pow2(_)
Pow2(n) == IF n = 0 THEN 1 ELSE 2 * Pow2(n - 1)

\* the JavaScript number n (0 <= n < 2^31) as a [hi, lo] number
Num(n) == [hi |-> n \div 65536, lo |-> n % 65536]

IsUint32(x)   == x.hi \in 0..65535 /\ x.lo \in 0..65535

\* ECMAScript ToUint32 / ToInt32 of an integer-valued number
ToUint32(x) == [hi |-> x.hi % 65536, lo |-> x.lo]
ToInt32(x)  == [hi |-> ((x.hi + 32768) % 65536) - 32768, lo |-> x.lo]

\* x ^ y, x & y, x | y : operands through ToInt32, result a signed 32-bit number
JsXor(x, y) == ToInt32([hi |-> BitXor(x.hi % 65536, y.hi % 65536),
                        lo |-> BitXor(x.lo, y.lo)])
JsAnd(x, y) == ToInt32([hi |-> BitAnd(x.hi % 65536, y.hi % 65536),
                        lo |-> BitAnd(x.lo, y.lo)])
JsOr(x, y)  == ToInt32([hi |-> BitOr(x.hi % 65536, y.hi % 65536),
                        lo |-> BitOr(x.lo, y.lo)])

\* x >>> n for n in 0..16 : operand through ToUint32, result unsigned
JsUshr(x, n) ==
    LET u == ToUint32(x)
    IN  [hi |-> u.hi \div Pow2(n),
         lo |-> (u.lo \div Pow2(n)) + (u.hi % Pow2(n)) * Pow2(16 - n)]

\* x << n for n in 0..16 : result a signed 32-bit number
JsShl(x, n) ==
    LET u == ToUint32(x)
    IN  ToInt32([hi |-> (u.hi % Pow2(16 - n)) * Pow2(n) + (u.lo \div Pow2(16 - n)),
                 lo |-> (u.lo % Pow2(16 - n)) * Pow2(n)])

----------------------------------------------------------------------------
(* Buffer primitives *)

\* an operation that returns a buffer or throws
Returned(buf) == [threw |-> FALSE, value |-> buf]
Threw         == [threw |-> TRUE,  value |-> <<>>]

\* the four bytes buf.writeUInt32BE(value, ...) stores; it throws
\* ERR_OUT_OF_RANGE unless 0 <= value <= 2^32 - 1
writeUInt32BE(value) ==
    IF IsUint32(value)
    THEN Returned(<<value.hi \div 256, value.hi % 256,
                    value.lo \div 256, value.lo % 256>>)
    ELSE Threw

\* the two bytes buf.writeUInt16LE(value, ...) stores; it throws
\* ERR_OUT_OF_RANGE unless 0 <= value <= 65535
writeUInt16LE(value) ==
    IF value \in 0..65535
    THEN Returned(<<value % 256, value \div 256>>)
    ELSE Threw

\* Buffer.from('IHDR') etc.: the ASCII codes of the tag
TagIHDR == <<73, 72, 68, 82>>
TagIDAT == <<73, 68, 65, 84>>
TagIEND == <<73, 69, 78, 68>>

----------------------------------------------------------------------------
(* crc32 *)

\* 0xEDB88320 and 0xFFFFFFFF as JavaScript numbers
Polynomial == [hi |-> 60856, lo |-> 33568]
AllOnes    == [hi |-> 65535, lo |-> 65535]

\* c after j more rounds of  c = (c & 1) ? (0xEDB88320 ^ (c >>> 1)) : (c >>> 1)
RECURSIVE TableRounds(_, _)
TableRounds(c, j) ==
    IF j = 0 THEN c
    ELSE TableRounds(IF JsAnd(c, Num(1)) # Num(0)
                     THEN JsXor(Polynomial, JsUshr(c, 1))
                     ELSE JsUshr(c, 1),
                     j - 1)

crcTable == [i \in 0..255 |-> TableRounds(Num(i), 8)]

\* the loop body:  crc = crcTable[(crc ^ data[i]) & 0xFF] ^ (crc >>> 8)
crcStep(c, byte) ==
    JsXor(crcTable[JsAnd(JsXor(c, Num(byte)), Num(255)).lo], JsUshr(c, 8))

\* for (let i = 0; i < data.length; i++) { body }: the body run on the bytes
\* lo..hi of buf in order, starting from c (the range is halved to keep the
\* evaluation shallow; the bytes are still taken one by one, left to right, and
\* the test on the left half, always true, has it evaluated before the right)
RECURSIVE crcLoop(_, _, _, _)
crcLoop(buf, lo, hi, c) ==
    IF lo > hi THEN c
    ELSE IF lo = hi THEN crcStep(c, buf[lo])
    ELSE LET mid == (lo + hi) \div 2
             left == crcLoop(buf, lo, mid, c)
         IN  IF left.lo >= 0 THEN crcLoop(buf, mid + 1, hi, left) ELSE left

\* faulty variant: the final ">>> 0" dropped: the signed result of the last "^"
crc32Signed(buf) == JsXor(crcLoop(buf, 1, Len(buf), AllOnes), AllOnes)
\* return (crc ^ 0xFFFFFFFF) >>> 0
crc32(buf) == JsUshr(JsXor(crcLoop(buf, 1, Len(buf), AllOnes), AllOnes), 0)

----------------------------------------------------------------------------
(* adler32 *)

MOD_ADLER == 65521

\* the loop body:  a = (a + data[i]) % MOD_ADLER;  b = (b + a) % MOD_ADLER
adlerStep(s, byte) ==
    LET a2 == (s.a + byte) % MOD_ADLER
    IN  [a |-> a2, b |-> (s.b + a2) % MOD_ADLER]

\* for (let i = 0; i < data.length; i++) { body }: the body run on the bytes
\* lo..hi of buf in order, starting from the sums s
RECURSIVE adlerLoop(_, _, _, _)
adlerLoop(buf, lo, hi, s) ==
    IF lo > hi THEN s
    ELSE IF lo = hi THEN adlerStep(s, buf[lo])
    ELSE LET mid == (lo + hi) \div 2
             left == adlerLoop(buf, lo, mid, s)
         IN  IF left.a >= 0 THEN adlerLoop(buf, mid + 1, hi, left) ELSE left

\* return (b << 16) | a
adler32(buf) ==
    LET s == adlerLoop(buf, 1, Len(buf), [a |-> 1, b |-> 0])
    IN  JsOr(JsShl(Num(s.b), 16), Num(s.a))

----------------------------------------------------------------------------
(* deflateData *)

maxBlockSize == 65535

Min(x, y) == IF x <= y THEN x ELSE y

\* faulty variant: isLast computed with > in place of >=
StoredBlockStrictLast(n, i) ==
    LET to     == Min(i + maxBlockSize, n)
        isLast == i + maxBlockSize > n
        len    == to - i
        nlen   == 65535 - len
    IN  [blockHeader |-> <<IF isLast THEN 1 ELSE 0>>,
         lengthBytes |-> writeUInt16LE(len).value \o writeUInt16LE(nlen).value,
         from        |-> i,
         to          |-> to]

\* faulty variant: the two length fields written high byte first
StoredBlockBigEndian(n, i) ==
    LET to     == Min(i + maxBlockSize, n)
        isLast == i + maxBlockSize >= n
        len    == to - i
        nlen   == 65535 - len
    IN  [blockHeader |-> <<IF isLast THEN 1 ELSE 0>>,
         lengthBytes |-> <<len \div 256, len % 256, nlen \div 256, nlen % 256>>,
         from        |-> i,
         to          |-> to]

\* one pass of the block loop for a buffer of n bytes, at offset i.  blockData
\* is data.subarray(from, to): a view of the input, kept as its two offsets.
StoredBlock(n, i) ==
    LET to     == Min(i + maxBlockSize, n)
        isLast == i + maxBlockSize >= n
        len    == to - i
        nlen   == 65535 - len
    IN  [blockHeader |-> <<IF isLast THEN 1 ELSE 0>>,
         lengthBytes |-> writeUInt16LE(len).value \o writeUInt16LE(nlen).value,
         from        |-> i,
         to          |-> to]

\* for (let i = 0; i < data.length; i += maxBlockSize) { ... blocks.push(...) }
\* The offsets the loop can visit are k * maxBlockSize; a pass runs at offset i
\* exactly when the loop test i < data.length holds there (once it fails, it
\* fails at every later offset).  Passes klo..khi, in order.
RECURSIVE blockLoop(_, _, _, _)
blockLoop(n, klo, khi, pushed) ==
    IF klo > khi THEN pushed
    ELSE IF klo = khi
         THEN IF klo * maxBlockSize < n
              THEN Append(pushed, StoredBlock(n, klo * maxBlockSize))
              ELSE pushed
    ELSE LET mid == (klo + khi) \div 2
             left == blockLoop(n, klo, mid, pushed)
         IN  IF Len(left) >= 0 THEN blockLoop(n, mid + 1, khi, left) ELSE left

deflateBlocks(n) == blockLoop(n, 0, n \div maxBlockSize, <<>>)

\* Buffer.concat(blocks), the views read from buf
RECURSIVE concatBlocks(_, _, _)
concatBlocks(buf, bl, k) ==
    IF k > Len(bl) THEN <<>>
    ELSE bl[k].blockHeader \o bl[k].lengthBytes
         \o SubSeq(buf, bl[k].from + 1, bl[k].to)
         \o concatBlocks(buf, bl, k + 1)

\* CMF = 0x78, FLG = 0x01
StreamHeader == <<120, 1>>

\* faulty variant: the checksum taken over the bytes of the last block only
deflateDataBlockAdler(buf) ==
    LET bl         == deflateBlocks(Len(buf))
        blockData  == concatBlocks(buf, bl, 1)
        lastBlock  == IF bl = <<>> THEN <<>>
                      ELSE SubSeq(buf, bl[Len(bl)].from + 1, bl[Len(bl)].to)
        adlerBytes == writeUInt32BE(adler32(lastBlock))
    IN  IF adlerBytes.threw THEN Threw
        ELSE Returned(StreamHeader \o blockData \o adlerBytes.value)

deflateData(buf) ==
    LET blockData  == concatBlocks(buf, deflateBlocks(Len(buf)), 1)
        adlerBytes == writeUInt32BE(adler32(buf))
    IN  IF adlerBytes.threw THEN Threw
        ELSE Returned(StreamHeader \o blockData \o adlerBytes.value)

----------------------------------------------------------------------------
(* Colors.  A string is a sequence of one-character strings. *)

HexDigits == <<"0", "1", "2", "3", "4", "5", "6", "7", "8", "9",
               "a", "b", "c", "d", "e", "f", "A", "B", "C", "D", "E", "F">>

IsHexDigit(ch) == \E k \in 1..Len(HexDigits) : HexDigits[k] = ch

\* the value of a hexadecimal digit
HexValue(ch) ==
    LET k == CHOOSE j \in 1..Len(HexDigits) : HexDigits[j] = ch
    IN  IF k <= 16 THEN k - 1 ELSE k - 7

\* /^#([0-9A-Fa-f]{3}|[0-9A-Fa-f]{6})$/.test(color)
isValidColor(color) ==
    /\ Len(color) \in {4, 7}
    /\ color[1] = "#"
    /\ \A k \in 2..Len(color) : IsHexDigit(color[k])

\* hex.replace('#', ''): the first '#' removed, if there is one
RemoveFirstHash(hex) ==
    IF \E k \in 1..Len(hex) : hex[k] = "#"
    THEN LET k == CHOOSE j \in 1..Len(hex) :
                     hex[j] = "#" /\ \A m \in 1..(j - 1) : hex[m] # "#"
         IN  SubSeq(hex, 1, k - 1) \o SubSeq(hex, k + 1, Len(hex))
    ELSE hex

NaN == -1

\* parseInt(s, 16) of a string of at most two characters: the longest prefix of
\* hexadecimal digits, NaN when there is none
parseInt16(s) ==
    IF Len(s) = 0 \/ ~IsHexDigit(s[1]) THEN NaN
    ELSE IF Len(s) = 1 \/ ~IsHexDigit(s[2]) THEN HexValue(s[1])
    ELSE 16 * HexValue(s[1]) + HexValue(s[2])

\* hex.substr(start, 2), start counted from 0
Substr2(hex, start) == SubSeq(hex, start + 1, Min(start + 2, Len(hex)))

\* faulty variant: a 3-character string is parsed as it is, not doubled
hexToRgbNotDoubled(color) ==
    LET hex == RemoveFirstHash(color)
    IN  [r |-> parseInt16(Substr2(hex, 0)),
         g |-> parseInt16(Substr2(hex, 2)),
         b |-> parseInt16(Substr2(hex, 4))]

hexToRgb(color) ==
    LET stripped == RemoveFirstHash(color)
        hex == IF Len(stripped) = 3
               THEN <<stripped[1], stripped[1], stripped[2], stripped[2],
                      stripped[3], stripped[3]>>
               ELSE stripped
    IN  [r |-> parseInt16(Substr2(hex, 0)),
         g |-> parseInt16(Substr2(hex, 2)),
         b |-> parseInt16(Substr2(hex, 4))]

----------------------------------------------------------------------------
(* generatePNG *)

Signature == <<137, 80, 78, 71, 13, 10, 26, 10>>

\* faulty variant: the sizes written low byte first, as writeUInt32LE would
ihdrDataLE(width, height) ==
    <<width % 256, width \div 256, 0, 0>> \o <<height % 256, height \div 256, 0, 0>>
    \o <<8, 2, 0, 0, 0>>

\* the 13 bytes of ihdrData
ihdrData(width, height) ==
    writeUInt32BE(Num(width)).value \o writeUInt32BE(Num(height)).value
    \o <<8, 2, 0, 0, 0>>

\* buf[i] = v: a byte element stores v modulo 256, and 0 for NaN
StoreByte(v) == IF v = NaN THEN 0 ELSE v % 256

\* faulty variant: the channels stored blue first
pixelDataBGR(width, height, rgb) ==
    [i \in 1..(width * height * 3) |->
        IF (i - 1) % 3 = 0 THEN StoreByte(rgb.b)
        ELSE IF (i - 1) % 3 = 1 THEN StoreByte(rgb.g) ELSE StoreByte(rgb.r)]

\* pixelData: width * height * 3 bytes, r g b repeated
pixelData(width, height, rgb) ==
    [i \in 1..(width * height * 3) |->
        IF (i - 1) % 3 = 0 THEN StoreByte(rgb.r)
        ELSE IF (i - 1) % 3 = 1 THEN StoreByte(rgb.g) ELSE StoreByte(rgb.b)]

\* imageData: per row one filter byte 0, then the row's width * 3 bytes of pixels
imageData(width, height, pixels) ==
    [p \in 1..(height + Len(pixels)) |->
        LET y == (p - 1) \div (1 + width * 3)
            k == (p - 1) % (1 + width * 3)
        IN  IF k = 0 THEN 0 ELSE pixels[y * width * 3 + (k - 1) + 1]]

\* faulty variant: the checksum taken over the length field too
ChunkCrcOverLength(lengthField, tag, payload) ==
    LET crcBytes == writeUInt32BE(crc32(lengthField \o tag \o payload))
    IN  IF crcBytes.threw THEN Threw
        ELSE Returned(lengthField \o tag \o payload \o crcBytes.value)

\* a chunk as generatePNG assembles it: the length field, the tag, the payload
\* and crc32(tag ++ payload) written with writeUInt32BE
Chunk(lengthField, tag, payload) ==
    LET crcBytes == writeUInt32BE(crc32(tag \o payload))
    IN  IF crcBytes.threw THEN Threw
        ELSE Returned(lengthField \o tag \o payload \o crcBytes.value)

\* faulty variant: the IEND chunk left out
concatFileNoEnd(ihdr, idat, iend) == Signature \o ihdr \o idat
\* return Buffer.concat([signature, ihdr, idat, iend])
concatFile(ihdr, idat, iend) == Signature \o ihdr \o idat \o iend

\* generatePNG's locals at the point where it returns or throws
generatePNGLocals(width, height, color) ==
    LET rgb        == hexToRgb(color)
        header     == ihdrData(width, height)
        ihdr       == Chunk(<<0, 0, 0, 13>>, TagIHDR, header)
        pixels     == pixelData(width, height, rgb)
        image      == imageData(width, height, pixels)
        compressed == deflateData(image)
        idat       == IF compressed.threw THEN Threw
                      ELSE Chunk(writeUInt32BE(Num(Len(compressed.value))).value,
                                 TagIDAT, compressed.value)
        iend       == Chunk(<<0, 0, 0, 0>>, TagIEND, <<>>)
        threw      == ihdr.threw \/ idat.threw \/ iend.threw
    IN  [threw      |-> threw,
         ihdrData   |-> header,
         imageData  |-> image,
         compressed |-> compressed,
         png        |-> IF threw THEN <<>>
                        ELSE concatFile(ihdr.value, idat.value, iend.value)]

\* faulty variant: the raster is kept on the object and filled only by the
\* first call of a size, so a later call of that size gets the first color
generatePNGKeptRaster(width, height, color) ==
    LET kept == calls # <<>> /\ calls[1].args.width = width
                             /\ calls[1].args.height = height
        l == generatePNGLocals(width, height,
                               IF kept THEN calls[1].args.color ELSE color)
    IN  IF l.threw THEN Threw ELSE Returned(l.png)

generatePNG(width, height, color) ==
    LET l == generatePNGLocals(width, height, color)
    IN  IF l.threw THEN Threw ELSE Returned(l.png)

----------------------------------------------------------------------------
(* The request handler *)

\* JavaScript values of the request's arguments.  A number is num / den.
NumberValue(n, d) == [type |-> "number", num |-> n, den |-> d]
StringValue(chars) == [type |-> "string", chars |-> chars]
WrongType(t) == [type |-> t, num |-> 0, den |-> 1, chars |-> <<>>]

\* the largest width and height a request may ask for
MaxDimension == 4096

IsPositive(v) == v.num > 0
AtMost4096(v) == v.num <= MaxDimension * v.den
IsWhole(v)    == v.num % v.den = 0

isValidGenerateImageArgs(a) ==
    /\ a.kind = "object"
    /\ a.width.type = "number"
    /\ a.height.type = "number"
    /\ a.color.type = "string"
    /\ a.filepath.type = "string"
    /\ IsPositive(a.width)
    /\ IsPositive(a.height)
    /\ AtMost4096(a.width)
    /\ AtMost4096(a.height)

\* dirname(filepath)
dirname(path) == IF path = <<"out", "a.png">> THEN <<"out">> ELSE <<>>

NoFile == [exists |-> FALSE, bytes |-> <<>>]
File(bytes) == [exists |-> TRUE, bytes |-> bytes]

NoResponse == [kind |-> "none", code |-> ""]
Success    == [kind |-> "result", code |-> ""]
McpError(code) == [kind |-> "error", code |-> code]

NoArgs == [kind |-> "undefined", width |-> WrongType("undefined"),
           height |-> WrongType("undefined"), color |-> WrongType("undefined"),
           filepath |-> WrongType("undefined")]

\* server.setRequestHandler(CallToolRequestSchema, ...): a generate_test_image
\* request arrives and handleGenerateImage(request.params.arguments) starts
CallTool(a) ==
    /\ pc = "idle"
    /\ pc' = "validate"
    /\ args' = a
    /\ pngBuffer' = <<>>
    /\ response' = NoResponse
    /\ effects' = <<>>
    /\ UNCHANGED <<files, dirs>>

\* if (!isValidGenerateImageArgs(args)) throw new McpError(InvalidParams, ...)
ValidateArgs ==
    /\ pc = "validate"
    /\ IF isValidGenerateImageArgs(args)
       THEN pc' = "color" /\ response' = response
       ELSE pc' = "idle" /\ response' = McpError("InvalidParams")
    /\ UNCHANGED <<args, pngBuffer, files, dirs, effects>>

\* if (!isValidColor(color)) throw new McpError(InvalidParams, ...)
CheckColor ==
    /\ pc = "color"
    /\ IF isValidColor(args.color.chars)
       THEN pc' = "generate" /\ response' = response
       ELSE pc' = "idle" /\ response' = McpError("InvalidParams")
    /\ UNCHANGED <<args, pngBuffer, files, dirs, effects>>

\* faulty variant: the file is opened for writing before the image is encoded,
\* so a throw of generatePNG leaves an empty file behind
GenerateAfterOpen ==
    /\ pc = "generate"
    /\ IsWhole(args.width) /\ IsWhole(args.height)
    /\ args.width.num \div args.width.den <= MaxDim
    /\ args.height.num \div args.height.den <= MaxDim
    /\ LET png == generatePNG(args.width.num \div args.width.den,
                              args.height.num \div args.height.den,
                              args.color.chars)
       IN  IF png.threw
           THEN /\ pc' = "idle"
                /\ response' = McpError("InternalError")
                /\ pngBuffer' = <<>>
           ELSE /\ pc' = "mkdir"
                /\ response' = response
                /\ pngBuffer' = png.value
    /\ files' = [files EXCEPT ![args.filepath.chars] = File(<<>>)]
    /\ effects' = Append(effects, "generatePNG")
    /\ UNCHANGED <<args, dirs>>

\* const pngBuffer = this.generatePNG(width, height, color), inside try: a throw
\* is caught and rethrown as McpError(InternalError).  The model encodes whole
\* sizes up to MaxDim per side.
Generate ==
    /\ pc = "generate"
    /\ IsWhole(args.width) /\ IsWhole(args.height)
    /\ args.width.num \div args.width.den <= MaxDim
    /\ args.height.num \div args.height.den <= MaxDim
    /\ LET png == generatePNG(args.width.num \div args.width.den,
                              args.height.num \div args.height.den,
                              args.color.chars)
       IN  IF png.threw
           THEN /\ pc' = "idle"
                /\ response' = McpError("InternalError")
                /\ pngBuffer' = <<>>
           ELSE /\ pc' = "mkdir"
                /\ response' = response
                /\ pngBuffer' = png.value
    /\ effects' = Append(effects, "generatePNG")
    /\ UNCHANGED <<args, files, dirs>>

\* try { mkdirSync(dir, { recursive: true }) } catch (e) { /* ignored */ }
Mkdir ==
    /\ pc = "mkdir"
    /\ \/ dirs' = dirs \cup {dirname(args.filepath.chars)}
       \/ dirs' = dirs
    /\ pc' = "write"
    /\ effects' = Append(effects, "mkdirSync")
    /\ UNCHANGED <<args, pngBuffer, files, response>>

\* writeFileSync(filepath, pngBuffer) returns, then the success message is returned
WriteFile ==
    /\ pc = "write"
    /\ dirname(args.filepath.chars) \in dirs
    /\ files' = [files EXCEPT ![args.filepath.chars] = File(pngBuffer)]
    /\ pc' = "idle"
    /\ response' = Success
    /\ effects' = Append(effects, "writeFileSync")
    /\ UNCHANGED <<args, pngBuffer, dirs>>

\* writeFileSync throws before anything is written (the file cannot be opened):
\* caught and rethrown as McpError(InternalError)
WriteFileFails ==
    /\ pc = "write"
    /\ pc' = "idle"
    /\ response' = McpError("InternalError")
    /\ effects' = Append(effects, "writeFileSync")
    /\ UNCHANGED <<args, pngBuffer, files, dirs>>

----------------------------------------------------------------------------
(* Inputs *)

\* valid colors given to the encoder: every #xyz over three digits, and some
\* six-digit colors
ShortDigits == {"0", "8", "F"}
ShortColors == {<<"#", x, y, z>> : x \in ShortDigits, y \in ShortDigits, z \in ShortDigits}
LongColors  == {<<"#", "F", "F", "0", "0", "0", "0">>,
                <<"#", "3", "4", "9", "8", "d", "b">>,
                <<"#", "1", "0", "2", "0", "3", "0">>,
                <<"#", "f", "f", "f", "f", "f", "f">>}
ValidColors == ShortColors \cup LongColors

EncodeInputs ==
    [width : 1..MaxDim, height : 1..MaxDim, color : ValidColors]

\* buffers given to the checksums: every sequence over SumBytes up to MaxLen
\* bytes, and every constant run up to MaxRun bytes
SumBytes == {0, 1, 128, 255}
RECURSIVE SeqsUpTo(_, _)
SeqsUpTo(S, n) ==
    IF n = 0 THEN {<<>>}
    ELSE LET shorter == SeqsUpTo(S, n - 1)
         IN  shorter \cup {Append(q, x) : q \in shorter, x \in S}
SumInputs ==
    SeqsUpTo(SumBytes, MaxLen)
    \cup {[i \in 1..n |-> x] : n \in 1..MaxRun, x \in SumBytes}

\* buffers given to deflateData alone: those of SumInputs, and the bytes
\* 1, 2, ..., 250, 0, 1, ... up to a length next to a multiple of maxBlockSize
StreamInputs ==
    SumInputs
    \cup {SubSeq([i \in 1..(k * maxBlockSize + d) |-> i % 251],
                  1, k * maxBlockSize + d) :
            k \in 1..MaxStreamBlocks, d \in {-1, 0, 1}}

\* buffer lengths given to the block loop: every length that fits one block,
\* those within MaxSmallLength of the multiples of maxBlockSize, and the raster
\* of a 4096 x 4096 image
LargestRaster == MaxDimension * (1 + 3 * MaxDimension)
BlockLengths ==
    (0..maxBlockSize)
    \cup {k * maxBlockSize + d : k \in 1..MaxBlocks,
                                 d \in (0 - MaxSmallLength)..MaxSmallLength}
    \cup {LargestRaster}

\* sizes given to the IHDR payload: every valid width, with the heights where
\* a byte of the field changes
HeaderHeights == {1, 2, 255, 256, 257, MaxDimension - 1, MaxDimension}
HeaderInputs  == [width : 1..MaxDimension, height : HeaderHeights]

\* arguments of successive generatePNG calls: two sizes, three colors; the
\* 2 x 3 white image is one on which generatePNG throws
CallInputs ==
    {[width |-> sz[1], height |-> sz[2], color |-> c] :
        sz \in {<<1, 1>>, <<2, 3>>},
        c \in {<<"#", "f", "0", "0">>, <<"#", "F", "F", "F">>,
               <<"#", "3", "4", "9", "8", "d", "b">>}}

\* strings given to hexToRgb: every 3-digit color over all hexadecimal digits
\* and every 6-digit color over LongDigits, each with and without the '#'
AllDigits  == {HexDigits[k] : k \in 1..Len(HexDigits)}
LongDigits == {"0", "9", "a", "F"}
ColorDigits ==
    {<<x, y, z>> : x \in AllDigits, y \in AllDigits, z \in AllDigits}
    \cup {<<u, v, w, x, y, z>> : u \in LongDigits, v \in LongDigits, w \in LongDigits,
                                 x \in LongDigits, y \in LongDigits, z \in LongDigits}
ColorInputs == ColorDigits \cup {<<"#">> \o d : d \in ColorDigits}

\* arguments of generate_test_image requests
RequestNumbers ==
    {NumberValue(n, 1) : n \in {0, 1, MaxDim, MaxDimension, MaxDimension + 1}}
    \cup {NumberValue(1, 2), NumberValue(3, 2)}
    \cup {WrongType("string")}
RequestColors ==
    {StringValue(<<"#", "f", "0", "0">>),
     StringValue(<<"#", "F", "F", "F", "F", "F", "F">>),
     StringValue(<<"r", "e", "d">>),
     WrongType("undefined")}
RequestPaths ==
    {StringValue(<<"out", "a.png">>), WrongType("undefined")}
Paths == {<<"out", "a.png">>}
Requests ==
    [kind : {"object"}, width : RequestNumbers, height : RequestNumbers,
     color : RequestColors, filepath : RequestPaths]
    \cup {NoArgs, [NoArgs EXCEPT !.kind = "null"]}

----------------------------------------------------------------------------
(* Specifications *)

NotComputed == [done |-> FALSE, threw |-> FALSE, value |-> <<>>]
Computed(r) == [done |-> TRUE, threw |-> r.threw, value |-> r.value]

HandlerIdle ==
    /\ pc = "idle"
    /\ args = NoArgs
    /\ pngBuffer = <<>>
    /\ files = [p \in Paths |-> NoFile]
    /\ dirs = {}
    /\ response = NoResponse
    /\ effects = <<>>
EncodeIdle ==
    /\ encArgs = [width |-> 1, height |-> 1, color |-> <<"#", "0", "0", "0">>]
    /\ locals = [done |-> FALSE]
SumIdle ==
    /\ data = <<>>
    /\ crc = [done |-> FALSE]
    /\ adler = [done |-> FALSE]
    /\ stream = NotComputed
BlocksIdle ==
    /\ dataLength = 0
    /\ blocks = [done |-> FALSE, pushed |-> <<>>]

HeaderIdle ==
    /\ hdrArgs = [width |-> 1, height |-> 1]
    /\ hdrOut = [done |-> FALSE, bytes |-> <<>>]
CallsIdle ==
    calls = <<>>
ColorIdle ==
    /\ hexArg = <<"#", "0", "0", "0">>
    /\ rgbOut = [done |-> FALSE]

\* --- the server: generate_test_image requests, one after the other ---
Init == HandlerIdle /\ CallsIdle /\ ColorIdle /\ EncodeIdle /\ SumIdle /\ BlocksIdle /\ HeaderIdle

Next ==
    \/ (\E a \in Requests : CallTool(a)) /\ UNCHANGED <<encodeVars, sumVars, blockVars, headerVars, callVars, colorVars>>
    \/ ValidateArgs /\ UNCHANGED <<encodeVars, sumVars, blockVars, headerVars, callVars, colorVars>>
    \/ CheckColor /\ UNCHANGED <<encodeVars, sumVars, blockVars, headerVars, callVars, colorVars>>
    \/ Generate /\ UNCHANGED <<encodeVars, sumVars, blockVars, headerVars, callVars, colorVars>>
    \/ Mkdir /\ UNCHANGED <<encodeVars, sumVars, blockVars, headerVars, callVars, colorVars>>
    \/ WriteFile /\ UNCHANGED <<encodeVars, sumVars, blockVars, headerVars, callVars, colorVars>>
    \/ WriteFileFails /\ UNCHANGED <<encodeVars, sumVars, blockVars, headerVars, callVars, colorVars>>

Spec == Init /\ [][Next]_vars

\* --- generatePNG applied to every input of EncodeInputs ---
Encode ==
    /\ ~locals.done
    /\ locals' = [done |-> TRUE] @@
                 generatePNGLocals(encArgs.width, encArgs.height, encArgs.color)
    /\ UNCHANGED <<encArgs, handlerVars, callVars, colorVars, sumVars, blockVars, headerVars>>

InitEncode ==
    /\ HandlerIdle /\ CallsIdle /\ ColorIdle /\ SumIdle /\ BlocksIdle /\ HeaderIdle
    /\ encArgs \in EncodeInputs
    /\ locals = [done |-> FALSE]

SpecEncode == InitEncode /\ [][Encode]_vars

\* --- crc32, adler32 and deflateData applied to every buffer of SumInputs ---
ComputeCrc32 ==
    /\ ~crc.done
    /\ crc' = [done |-> TRUE, value |-> crc32(data)]
    /\ UNCHANGED <<data, adler, stream, handlerVars, callVars, colorVars, encodeVars, blockVars, headerVars>>

ComputeAdler32 ==
    /\ ~adler.done
    /\ adler' = [done |-> TRUE, value |-> adler32(data)]
    /\ UNCHANGED <<data, crc, stream, handlerVars, callVars, colorVars, encodeVars, blockVars, headerVars>>

ComputeDeflate ==
    /\ ~stream.done
    /\ stream' = Computed(deflateData(data))
    /\ UNCHANGED <<data, crc, adler, handlerVars, callVars, colorVars, encodeVars, blockVars, headerVars>>

InitSums ==
    /\ HandlerIdle /\ CallsIdle /\ ColorIdle /\ EncodeIdle /\ BlocksIdle /\ HeaderIdle
    /\ data \in SumInputs
    /\ crc = [done |-> FALSE]
    /\ adler = [done |-> FALSE]
    /\ stream = NotComputed

NextSums == ComputeCrc32 \/ ComputeAdler32 \/ ComputeDeflate

SpecSums == InitSums /\ [][NextSums]_vars

\* --- deflateData applied to every buffer of StreamInputs ---
InitStream ==
    /\ HandlerIdle /\ CallsIdle /\ ColorIdle /\ EncodeIdle /\ BlocksIdle /\ HeaderIdle
    /\ data \in StreamInputs
    /\ crc = [done |-> FALSE]
    /\ adler = [done |-> FALSE]
    /\ stream = NotComputed

SpecStream == InitStream /\ [][ComputeDeflate]_vars

\* --- deflateData's block loop applied to every length of BlockLengths ---
SplitBlocks ==
    /\ ~blocks.done
    /\ blocks' = [done |-> TRUE, pushed |-> deflateBlocks(dataLength)]
    /\ UNCHANGED <<dataLength, handlerVars, callVars, colorVars, encodeVars, sumVars, headerVars>>

InitBlocks ==
    /\ HandlerIdle /\ CallsIdle /\ ColorIdle /\ EncodeIdle /\ SumIdle /\ HeaderIdle
    /\ dataLength \in BlockLengths
    /\ blocks = [done |-> FALSE, pushed |-> <<>>]

SpecBlocks == InitBlocks /\ [][SplitBlocks]_vars

\* --- generatePNG's IHDR payload built for every size of HeaderInputs ---
BuildHeader ==
    /\ ~hdrOut.done
    /\ hdrOut' = [done |-> TRUE, bytes |-> ihdrData(hdrArgs.width, hdrArgs.height)]
    /\ UNCHANGED <<hdrArgs, handlerVars, callVars, colorVars, encodeVars, sumVars, blockVars>>

InitHeader ==
    /\ HandlerIdle /\ CallsIdle /\ ColorIdle /\ EncodeIdle /\ SumIdle /\ BlocksIdle
    /\ hdrArgs \in HeaderInputs
    /\ hdrOut = [done |-> FALSE, bytes |-> <<>>]

SpecHeader == InitHeader /\ [][BuildHeader]_vars

\* --- generatePNG called again and again on the one server object.  The class
\* has no field besides the server, and generatePNG, deflateData, crc32 and
\* adler32 work on locals only (crc32 builds its table anew on every call), so
\* a call reads its arguments and nothing else; it is synchronous, so calls
\* follow one another without interleaving ---
EncodeCall(a) ==
    /\ Len(calls) < MaxCalls
    /\ calls' = Append(calls, [args    |-> a,
                               outcome |-> generatePNG(a.width, a.height, a.color)])
    /\ UNCHANGED <<handlerVars, encodeVars, sumVars, blockVars, headerVars, colorVars>>

InitCalls ==
    /\ HandlerIdle /\ ColorIdle /\ EncodeIdle /\ SumIdle /\ BlocksIdle /\ HeaderIdle
    /\ calls = <<>>

SpecCalls == InitCalls /\ [][\E a \in CallInputs : EncodeCall(a)]_vars

\* --- hexToRgb applied to every string of ColorInputs ---
ConvertColor ==
    /\ ~rgbOut.done
    /\ rgbOut' = [done |-> TRUE, value |-> hexToRgb(hexArg)]
    /\ UNCHANGED <<hexArg, handlerVars, encodeVars, sumVars, blockVars, headerVars, callVars>>

InitColor ==
    /\ HandlerIdle /\ CallsIdle /\ EncodeIdle /\ SumIdle /\ BlocksIdle /\ HeaderIdle
    /\ hexArg \in ColorInputs
    /\ rgbOut = [done |-> FALSE]

SpecColor == InitColor /\ [][ConvertColor]_vars

----------------------------------------------------------------------------
(* Reference definitions the properties are stated against.  They follow   *)
(* the PNG, zlib and DEFLATE formats, not the program: unsigned arithmetic *)
(* throughout, a 32-bit value being [hi, lo] with both halves in 0..65535. *)

\* four bytes read as a big-endian unsigned 32-bit value
RefWord(b) == [hi |-> b[1] * 256 + b[2], lo |-> b[3] * 256 + b[4]]

\* one bit of the reflected CRC-32: shift right, and subtract the polynomial
\* 0xEDB88320 when the bit shifted out was 1
RefCrcBit(c) ==
    LET shifted == [hi |-> c.hi \div 2, lo |-> (c.lo \div 2) + (c.hi % 2) * 32768]
    IN  IF c.lo % 2 = 1
        THEN [hi |-> BitXor(shifted.hi, 60856), lo |-> BitXor(shifted.lo, 33568)]
        ELSE shifted

RECURSIVE RefCrcBits(_, _)
RefCrcBits(c, k) == IF k = 0 THEN c ELSE RefCrcBits(RefCrcBit(c), k - 1)

RefCrcByte(c, byte) == RefCrcBits([hi |-> c.hi, lo |-> BitXor(c.lo, byte)], 8)

RECURSIVE RefCrcRange(_, _, _, _)
RefCrcRange(buf, lo, hi, c) ==
    IF lo > hi THEN c
    ELSE IF lo = hi THEN RefCrcByte(c, buf[lo])
    ELSE LET mid  == (lo + hi) \div 2
             left == RefCrcRange(buf, lo, mid, c)
         IN  IF left.lo >= 0 THEN RefCrcRange(buf, mid + 1, hi, left) ELSE left

\* CRC-32: initial value 0xFFFFFFFF, final XOR 0xFFFFFFFF
RefCrc32(buf) ==
    LET c == RefCrcRange(buf, 1, Len(buf), [hi |-> 65535, lo |-> 65535])
    IN  [hi |-> 65535 - c.hi, lo |-> 65535 - c.lo]

\* the Adler-32 sums <<a, b>> of the first n bytes of buf
RECURSIVE RefAdlerSums(_, _)
RefAdlerSums(buf, n) ==
    IF n = 0 THEN <<1, 0>>
    ELSE LET before == RefAdlerSums(buf, n - 1)
             a      == (before[1] + buf[n]) % 65521
         IN  <<a, (before[2] + a) % 65521>>

\* Adler-32: b * 65536 + a
RefAdler32(buf) ==
    LET sums == RefAdlerSums(buf, Len(buf))
    IN  [hi |-> sums[2], lo |-> sums[1]]

Bad == [ok |-> FALSE]

\* the chunks of a PNG datastream from position pos on: each a length, a tag,
\* the payload and the CRC-32 of tag and payload; IEND ends the datastream and
\* nothing may follow it.  (Lengths of 65536 and more do not occur here.)
RECURSIVE RefChunks(_, _, _)
RefChunks(bytes, pos, found) ==
    IF pos + 11 > Len(bytes) \/ bytes[pos] # 0 \/ bytes[pos + 1] # 0 THEN Bad
    ELSE LET len     == bytes[pos + 2] * 256 + bytes[pos + 3]
             tag     == SubSeq(bytes, pos + 4, pos + 7)
             payload == SubSeq(bytes, pos + 8, pos + 7 + len)
             sum     == SubSeq(bytes, pos + 8 + len, pos + 11 + len)
             all     == Append(found, [at |-> pos, tag |-> tag, payload |-> payload])
         IN  IF pos + 11 + len > Len(bytes) THEN Bad
             ELSE IF RefWord(sum) # RefCrc32(tag \o payload) THEN Bad
             ELSE IF tag = <<73, 69, 78, 68>>
                  THEN IF pos + 11 + len = Len(bytes)
                       THEN [ok |-> TRUE, chunks |-> all]
                       ELSE Bad
             ELSE RefChunks(bytes, pos + 12 + len, all)

\* the stored blocks of a DEFLATE stream z from position pos on; after the
\* final block come exactly the four bytes of the Adler-32 of the output
RECURSIVE RefStoredBlocks(_, _, _)
RefStoredBlocks(z, pos, out) ==
    IF pos + 4 > Len(z) THEN Bad
    ELSE LET final == z[pos] % 2
             type  == (z[pos] \div 2) % 4
             len   == z[pos + 1] + 256 * z[pos + 2]
             nlen  == z[pos + 3] + 256 * z[pos + 4]
             next  == pos + 5 + len
             all   == out \o SubSeq(z, pos + 5, pos + 4 + len)
         IN  IF type # 0 \/ len + nlen # 65535 \/ next - 1 > Len(z) THEN Bad
             ELSE IF final = 0 THEN RefStoredBlocks(z, next, all)
             ELSE IF next + 3 # Len(z) THEN Bad
             ELSE IF RefWord(SubSeq(z, next, next + 3)) # RefAdler32(all) THEN Bad
             ELSE [ok |-> TRUE, bytes |-> all]

\* a zlib stream: CMF and FLG (method 8, window at most 32K, check bits, no
\* preset dictionary), then the DEFLATE stream and its Adler-32
RefInflate(z) ==
    IF Len(z) < 2 THEN Bad
    ELSE IF \/ z[1] % 16 # 8
            \/ z[1] \div 16 > 7
            \/ (z[1] * 256 + z[2]) % 31 # 0
            \/ (z[2] \div 32) % 2 # 0
         THEN Bad
    ELSE RefStoredBlocks(z, 3, <<>>)

RECURSIVE RefJoinIdat(_, _)
RefJoinIdat(chunks, k) ==
    IF k > Len(chunks) - 1 THEN <<>>
    ELSE chunks[k].payload \o RefJoinIdat(chunks, k + 1)

\* a decoder of 8-bit truecolor, non-interlaced PNG files whose scanlines use
\* filter type 0: the signature, IHDR, the IDAT chunks, IEND
RefDecode(bytes) ==
    IF Len(bytes) < 8 \/ SubSeq(bytes, 1, 8) # <<137, 80, 78, 71, 13, 10, 26, 10>>
    THEN Bad
    ELSE LET parsed == RefChunks(bytes, 9, <<>>)
         IN  IF ~parsed.ok THEN Bad
             ELSE LET chunks == parsed.chunks
                      head   == chunks[1].payload
                  IN  IF \/ Len(chunks) < 3
                         \/ chunks[1].tag # <<73, 72, 68, 82>>
                         \/ Len(head) # 13
                         \/ \E k \in 2..(Len(chunks) - 1) :
                                chunks[k].tag # <<73, 68, 65, 84>>
                         \/ SubSeq(head, 9, 13) # <<8, 2, 0, 0, 0>>
                         \/ head[1] # 0 \/ head[2] # 0 \/ head[5] # 0 \/ head[6] # 0
                      THEN Bad
                      ELSE LET w   == head[3] * 256 + head[4]
                               h   == head[7] * 256 + head[8]
                               raw == RefInflate(RefJoinIdat(chunks, 2))
                           IN  IF ~raw.ok THEN Bad
                               ELSE IF \/ w = 0 \/ h = 0
                                       \/ Len(raw.bytes) # h * (1 + 3 * w)
                                       \/ \E y \in 0..(h - 1) :
                                              raw.bytes[y * (1 + 3 * w) + 1] # 0
                               THEN Bad
                               ELSE [ok |-> TRUE, width |-> w, height |-> h,
                                     pixels |->
                                       [y \in 0..(h - 1) |->
                                         [x \in 0..(w - 1) |->
                                           LET at == y * (1 + 3 * w) + 1 + 3 * x
                                           IN  <<raw.bytes[at + 1], raw.bytes[at + 2],
                                                 raw.bytes[at + 3]>>]]]

\* the color a request asks for, as the triplet of its channels
Requested(color) ==
    LET rgb == hexToRgb(color) IN <<rgb.r, rgb.g, rgb.b>>

\* a 32-bit value as four big-endian bytes
RefBytes(w) == <<w.hi \div 256, w.hi % 256, w.lo \div 256, w.lo % 256>>

\* a chunk of the PNG format: length of the payload, tag, payload, CRC-32 of
\* tag and payload
RefChunk(tag, payload) ==
    RefBytes(Num(Len(payload))) \o tag \o payload \o RefBytes(RefCrc32(tag \o payload))

----------------------------------------------------------------------------
(* Properties *)

\* C1: for every valid width, height and color, decoding the bytes returned by
\* generatePNG with a conforming decoder gives an image of exactly width x
\* height pixels, every pixel the requested color.
C1_RoundTrip ==
    locals.done =>
        /\ ~locals.threw
        /\ LET image == RefDecode(locals.png)
           IN  /\ image.ok
               /\ image.width = encArgs.width
               /\ image.height = encArgs.height
               /\ \A y \in 0..(encArgs.height - 1) : \A x \in 0..(encArgs.width - 1) :
                      image.pixels[y][x] = Requested(encArgs.color)

\* C2: for every valid width, height and color, generatePNG completes and
\* returns a byte sequence: no step of it raises an error, the writes of the
\* Adler-32 trailer and of the chunk CRCs as unsigned 32-bit fields included.
C2_EncodeCompletes ==
    locals.done =>
        /\ ~locals.compressed.threw
        /\ ~locals.threw
        /\ Len(locals.png) > 0

\* C3: for every byte sequence, adler32 returns an unsigned 32-bit integer equal
\* to b * 65536 + a for the sums a and b of the sequence; it is never negative,
\* and it is 1 for the empty sequence.
C3_Adler32Unsigned ==
    adler.done =>
        /\ IsUint32(adler.value)
        /\ adler.value = RefAdler32(data)
        /\ (data = <<>> => adler.value = Num(1))

\* C4: for every byte sequence, crc32 returns a value in 0..2^32-1 equal to the
\* reflected CRC-32 (polynomial 0xEDB88320, initial value and final XOR
\* 0xFFFFFFFF) computed bit by bit, and crc32 of the empty sequence is 0.
C4_Crc32MatchesReference ==
    crc.done =>
        /\ IsUint32(crc.value)
        /\ crc.value = RefCrc32(data)
        /\ (data = <<>> => crc.value = Num(0))

\* crc32 has run on a buffer whose checksum has its top bit set
C4_Witness ==
    /\ crc.done
    /\ Len(data) > MaxLen
    /\ crc.value.hi >= 32768

\* C5: the bytes generatePNG returns are exactly the 8-byte signature followed
\* by exactly three chunks, IHDR, IDAT and IEND in this order, with no bytes
\* before, between or after them.
C5_SignatureThenThreeChunks ==
    (locals.done /\ ~locals.threw) =>
        /\ SubSeq(locals.png, 1, 8) = <<137, 80, 78, 71, 13, 10, 26, 10>>
        /\ LET parsed == RefChunks(locals.png, 9, <<>>)
           IN  /\ parsed.ok
               /\ [k \in 1..Len(parsed.chunks) |-> parsed.chunks[k].tag]
                    = <<TagIHDR, TagIDAT, TagIEND>>

\* generatePNG has returned the file of an image of more than one row
C5_Witness ==
    /\ locals.done
    /\ ~locals.threw
    /\ encArgs.height > 1
    /\ Len(locals.png) > 8 + 3 * 12

\* C6: for every width and height in 1..4096 the IHDR payload is exactly 13
\* bytes: bytes 0..3 and 4..7 read as big-endian unsigned integers give back
\* width and height, and bytes 8..12 are 8, 2, 0, 0, 0.
C6_HeaderPayload ==
    hdrOut.done =>
        /\ Len(hdrOut.bytes) = 13
        /\ RefWord(SubSeq(hdrOut.bytes, 1, 4)) = Num(hdrArgs.width)
        /\ RefWord(SubSeq(hdrOut.bytes, 5, 8)) = Num(hdrArgs.height)
        /\ SubSeq(hdrOut.bytes, 9, 13) = <<8, 2, 0, 0, 0>>

\* the payload of the largest image has been built
C6_Witness ==
    /\ hdrOut.done
    /\ hdrArgs.width = MaxDimension
    /\ hdrArgs.height = MaxDimension

\* C7: each of the three chunks is the 4-byte big-endian length of its payload
\* alone (13, the length of the compressed stream, 0), the tag, the payload,
\* and the big-endian crc32 of tag and payload, the length field left out.
C7_ChunkLayout ==
    (locals.done /\ ~locals.threw) =>
        LET payload == locals.compressed.value
            n       == Len(payload)
        IN  /\ Len(locals.png) = 8 + (12 + 13) + (12 + n) + 12
            /\ SubSeq(locals.png, 9, 33) = RefChunk(TagIHDR, locals.ihdrData)
            /\ SubSeq(locals.png, 9, 12) = <<0, 0, 0, 13>>
            /\ SubSeq(locals.png, 34, 45 + n) = RefChunk(TagIDAT, payload)
            /\ SubSeq(locals.png, 46 + n, 57 + n) = RefChunk(TagIEND, <<>>)
            /\ SubSeq(locals.png, 46 + n, 49 + n) = <<0, 0, 0, 0>>

\* generatePNG has returned a file whose IDAT payload is longer than IHDR's
C7_Witness ==
    /\ locals.done
    /\ ~locals.threw
    /\ Len(locals.compressed.value) > 13
    /\ encArgs.width = MaxDim

\* a width or height inside 1..4096
RefInRange(v) == v.type = "number" /\ v.num >= v.den /\ v.num <= 4096 * v.den

C9_ScanlineBuffer ==
    locals.done =>
        LET w   == encArgs.width
            h   == encArgs.height
            rgb == Requested(encArgs.color)
            row == [k \in 1..(1 + 3 * w) |-> IF k = 1 THEN 0 ELSE rgb[((k - 2) % 3) + 1]]
        IN  /\ Len(locals.imageData) = h * (1 + 3 * w)
            /\ \A y \in 0..(h - 1) :
                   SubSeq(locals.imageData, y * (1 + 3 * w) + 1, (y + 1) * (1 + 3 * w)) = row
            /\ (w = 2 /\ h = 2 /\ rgb = <<255, 0, 0>>) =>
                   locals.imageData = <<0, 255, 0, 0, 255, 0, 0, 0, 255, 0, 0, 255, 0, 0>>

\* the buffer of the 2 x 2 image of #F00 has been built
C9_Witness ==
    /\ locals.done
    /\ encArgs = [width |-> 2, height |-> 2, color |-> <<"#", "F", "0", "0">>]
    /\ Len(locals.imageData) = 14

\* C10: for every non-empty input of n bytes the block loop of deflateData
\* emits exactly ceil(n / 65535) stored blocks of at most 65535 bytes each,
\* whose payloads, in order, are the input; the last block alone has header
\* byte 1, every earlier one 0.  An input longer than 65535 bytes gives at
\* least two blocks, one of exactly k * 65535 bytes gives k blocks.
C10_StoredBlocks ==
    (blocks.done /\ dataLength > 0) =>
        LET b == blocks.pushed
            n == dataLength
        IN  /\ Len(b) = (n + 65534) \div 65535
            /\ \A k \in 1..Len(b) :
                   /\ b[k].to - b[k].from \in 1..65535
                   /\ b[k].from = (IF k = 1 THEN 0 ELSE b[k - 1].to)
                   /\ b[k].blockHeader = (IF k = Len(b) THEN <<1>> ELSE <<0>>)
            /\ b[Len(b)].to = n
            /\ (n > 65535 => Len(b) >= 2)
            /\ (n % 65535 = 0 => Len(b) = n \div 65535)

\* the loop has run on the raster of the 4096 x 4096 image
C10_Witness ==
    /\ blocks.done
    /\ dataLength = LargestRaster
    /\ Len(blocks.pushed) > MaxBlocks

RefDigit(ch) ==
    CASE ch = "0" -> 0  [] ch = "1" -> 1  [] ch = "2" -> 2  [] ch = "3" -> 3
      [] ch = "4" -> 4  [] ch = "5" -> 5  [] ch = "6" -> 6  [] ch = "7" -> 7
      [] ch = "8" -> 8  [] ch = "9" -> 9
      [] ch \in {"a", "A"} -> 10  [] ch \in {"b", "B"} -> 11
      [] ch \in {"c", "C"} -> 12  [] ch \in {"d", "D"} -> 13
      [] ch \in {"e", "E"} -> 14  [] ch \in {"f", "F"} -> 15

\* the triplet a 6-digit color stands for
RefTriplet(d) ==
    [r |-> 16 * RefDigit(d[1]) + RefDigit(d[2]),
     g |-> 16 * RefDigit(d[3]) + RefDigit(d[4]),
     b |-> 16 * RefDigit(d[5]) + RefDigit(d[6])]

\* C12: for every 3-digit color xyz, with or without the '#', hexToRgb returns
\* the triplet it returns for xxyyzz; for every 3- or 6-digit color each
\* channel is an integer in 0..255, the value of its two hexadecimal digits.
C12_ShortEqualsLong ==
    rgbOut.done =>
        LET d    == IF hexArg[1] = "#" THEN Tail(hexArg) ELSE hexArg
            long == IF Len(d) = 3
                    THEN <<d[1], d[1], d[2], d[2], d[3], d[3]>>
                    ELSE d
        IN  /\ Len(d) = 3 => /\ rgbOut.value = hexToRgb(long)
                              /\ rgbOut.value = hexToRgb(<<"#">> \o long)
            /\ rgbOut.value = RefTriplet(long)
            /\ rgbOut.value.r \in 0..255
            /\ rgbOut.value.g \in 0..255
            /\ rgbOut.value.b \in 0..255

\* hexToRgb has converted a 3-digit color written without '#'
C12_Witness ==
    /\ rgbOut.done
    /\ hexArg = <<"f", "0", "A">>
    /\ rgbOut.value = [r |-> 255, g |-> 0, b |-> 170]

\* C13: given a zero-length input, deflateData returns the 2-byte stream
\* header, then exactly one empty final stored block (header byte 0x01, length
\* 0x0000, complement 0xFFFF), then the Adler-32 trailer 00 00 00 01.
C13_EmptyInputOneBlock ==
    (stream.done /\ data = <<>>) =>
        /\ ~stream.threw
        /\ stream.value = <<120, 1>> \o <<1, 0, 0, 255, 255>> \o <<0, 0, 0, 1>>

\* C14: in every stored block deflateData emits, the length field holds the
\* block's byte count LEN as 2 bytes, low byte first, then NLEN as 2 bytes, low
\* byte first, NLEN being the 16-bit one's complement of LEN (LEN + NLEN =
\* 0xFFFF, both in 0..65535); a 14-byte block has LEN 0x000E and NLEN 0xFFF1.
C14_LengthAndComplement ==
    blocks.done =>
        \A k \in 1..Len(blocks.pushed) :
            LET blk  == blocks.pushed[k]
                f    == blk.lengthBytes
                LEN  == f[1] + 256 * f[2]
                NLEN == f[3] + 256 * f[4]
            IN  /\ Len(blk.blockHeader) = 1
                /\ Len(f) = 4
                /\ \A m \in 1..4 : f[m] \in 0..255
                /\ LEN = blk.to - blk.from
                /\ LEN + NLEN = 65535
                /\ NLEN = BitXor(LEN, 65535)
                /\ (blk.to - blk.from = 14 => f = <<14, 0, 241, 255>>)

\* the loop has emitted the single block of a 14-byte buffer
C14_Witness ==
    /\ blocks.done
    /\ dataLength = 14
    /\ Len(blocks.pushed) = 1
    /\ blocks.pushed[1].lengthBytes = <<14, 0, 241, 255>>

\* the sum of buf[i] for i in lo..hi, each byte taken once (n = 0) or
\* n - i + 1 times (n > 0), modulo 65521
RECURSIVE RefWeightedSum(_, _, _, _)
RefWeightedSum(buf, lo, hi, n) ==
    IF lo > hi THEN 0
    ELSE IF lo = hi
         THEN ((IF n = 0 THEN 1 ELSE (n - lo + 1) % 65521) * buf[lo]) % 65521
    ELSE LET mid == (lo + hi) \div 2
         IN  (RefWeightedSum(buf, lo, mid, n)
              + RefWeightedSum(buf, mid + 1, hi, n)) % 65521

\* Adler-32 by its sums in closed form: a = 1 + d1 + ... + dn and
\* b = n + n*d1 + (n-1)*d2 + ... + 1*dn, both modulo 65521, as b * 65536 + a
RefAdler32Closed(buf) ==
    LET n == Len(buf)
    IN  [hi |-> (n + RefWeightedSum(buf, 1, n, n)) % 65521,
         lo |-> (1 + RefWeightedSum(buf, 1, n, 0)) % 65521]

\* the number of stored blocks of at most 65535 bytes n bytes are split into
RefBlockCount(n) == (n + 65534) \div 65535

\* C15: the stream deflateData returns begins with 0x78 0x01 and ends with the
\* 4-byte big-endian Adler-32 of the whole input, however many stored blocks
\* the input was split into; its length is 2 + 5 * blocks + input length + 4,
\* the blocks lying between the two, each header byte and length fields
\* followed by its part of the input.
C15_HeaderAndTrailer ==
    (stream.done /\ ~stream.threw) =>
        LET z  == stream.value
            n  == Len(data)
            nb == RefBlockCount(n)
        IN  /\ Len(z) = 2 + 5 * nb + n + 4
            /\ SubSeq(z, 1, 2) = <<120, 1>>
            /\ SubSeq(z, Len(z) - 3, Len(z)) = RefBytes(RefAdler32Closed(data))
            /\ \A k \in 0..(nb - 1) :
                   LET at  == 3 + k * 65540
                       len == IF k = nb - 1 THEN n - k * 65535 ELSE 65535
                   IN  /\ z[at] = (IF k = nb - 1 THEN 1 ELSE 0)
                       /\ z[at + 1] + 256 * z[at + 2] = len
                       /\ z[at + 3] + 256 * z[at + 4] = 65535 - len
                       /\ SubSeq(z, at + 5, at + 4 + len)
                            = SubSeq(data, k * 65535 + 1, k * 65535 + len)

\* deflateData has returned the stream of an input split into several blocks
C15_Witness ==
    /\ stream.done
    /\ ~stream.threw
    /\ Len(data) > 65535
    /\ data[1] = 1

\* what generatePNG returns for the sizes and the color of a request
RequestedPng(a) ==
    generatePNG(a.width.num \div a.width.den, a.height.num \div a.height.den,
                a.color.chars)

\* the side effects of a call come in this order
C16_Order == <<"generatePNG", "mkdirSync", "writeFileSync">>

\* in every state: the side effects so far are a prefix of encode, mkdir,
\* write; the directory and the file are touched only with the complete
\* encoding in hand; a call that returned the success message did all three
\* once and left exactly the encoding in the file
C16_State ==
    /\ Len(effects) <= 3
    /\ effects = SubSeq(C16_Order, 1, Len(effects))
    /\ (pc \in {"mkdir", "write"} =>
            /\ ~RequestedPng(args).threw
            /\ pngBuffer = RequestedPng(args).value
            /\ Len(pngBuffer) > 0)
    /\ (pc = "idle" /\ response = Success =>
            /\ effects = C16_Order
            /\ files[args.filepath.chars] = File(RequestedPng(args).value))

\* in every step: the file system changes under filepath only in the step that
\* ends the call in success, and a step that ends the call in an error of the
\* argument check, of the color check or of the encoding changes no file, no
\* write having been begun by the call
C16_Step ==
    /\ (files' # files =>
            /\ pc = "write" /\ pc' = "idle" /\ response' = Success
            /\ files' = [files EXCEPT ![args.filepath.chars] = File(RequestedPng(args).value)])
    /\ (pc \in {"validate", "color", "generate"} /\ pc' = "idle" =>
            /\ response'.kind = "error"
            /\ files' = files
            /\ dirs' = dirs
            /\ \A k \in 1..Len(effects') : effects'[k] = "generatePNG")

\* C16: a generate_test_image call has no partial outcome.  If it ends in an
\* error of the arguments, of the color or of the encoding, no byte was written
\* to filepath by it; if it returns the success message, filepath was written
\* exactly once, with the complete bytes generatePNG returned for the requested
\* width, height and color; the encoding is complete before the directory is
\* created and before the file is written.
C16_NoPartialOutcome == []C16_State /\ [][C16_Step]_vars

\* a call has failed in the encoding, after an earlier call had written the file
C16_Witness ==
    /\ pc = "idle"
    /\ response = McpError("InternalError")
    /\ effects = <<"generatePNG">>
    /\ files[args.filepath.chars].exists
    /\ Len(files[args.filepath.chars].bytes) > 0

\* a width or height that is an integer in 1..4096
RefIntegerInRange(v) ==
    /\ v.type = "number"
    /\ \E n \in 1..4096 : v.num = n * v.den

\* C17: a request reaches the image generation only if width and height are
\* both integers in 1..4096; a numeric width or height that is not a whole
\* number is rejected with the invalid-parameter error, as 0 and 4097 are.
C17_NonIntegerRejected ==
    /\ (pc \in {"generate", "mkdir", "write"} =>
            RefIntegerInRange(args.width) /\ RefIntegerInRange(args.height))
    /\ (/\ args.kind = "object"
        /\ args.width.type = "number" /\ args.height.type = "number"
        /\ (~RefIntegerInRange(args.width) \/ ~RefIntegerInRange(args.height))
        /\ pc # "validate")
        => (pc = "idle" /\ response = McpError("InvalidParams"))

====
